---------------------------- MODULE Spec2Model ----------------------------
(***************************************************************************)
(* Model of the Legal Assistant screen (LegalAssistant.js): the chat loop  *)
(* handleSend, the FIR field extraction and document assembly of           *)
(* generateFIRAndShare, and the Reset action; and of the Legal Rights     *)
(* Guide screen (LegalRightsGuide.js): its search over the static data.   *)
(*                                                                         *)
(* Strings are sequences of tokens.  A token stands for a substring that   *)
(* the code treats as a unit: a label name in a given letter case, a       *)
(* colon, a whitespace run, an ordinary word, a placeholder of the         *)
(* template, a replacement pattern of String.prototype.replace.            *)
(***************************************************************************)
EXTENDS Integers, Sequences, FiniteSets, TLC

(***************************************************************************)
(* Bounds of the model.                                                    *)
(***************************************************************************)
MaxLen == 5
MaxSends == 1
MaxFirs == 1
MaxQuery == 2

(***************************************************************************)
(* Text helpers.                                                           *)
(***************************************************************************)
RECURSIVE Concat(_)
Concat(ss) == IF ss = <<>> THEN <<>> ELSE Head(ss) \o Concat(Tail(ss))

\* Token sequences over alphabet A of length at most n.
RECURSIVE SeqsUpTo(_, _)
SeqsUpTo(A, n) ==
  IF n = 0 THEN {<<>>}
  ELSE LET shorter == SeqsUpTo(A, n - 1)
       IN  shorter \cup {Append(s, a) : s \in {t \in shorter : Len(t) = n - 1}, a \in A}

\* const sections = [...]
Labels ==
  << "Complainant Details", "Incident Details", "Accused Details",
     "Witness Details", "Evidence Details", "IPC Sections" >>

\* The same names as String.prototype.toLowerCase writes them.
LabelsLower ==
  << "complainant details", "incident details", "accused details",
     "witness details", "evidence details", "ipc sections" >>

NotProvided == << "Information not provided" >>

\* Case folding of one token, as the regex flag 'i' compares characters.
RECURSIVE ToLowerFrom(_, _)
ToLowerFrom(tok, k) ==
  IF k > Len(Labels) THEN tok
  ELSE IF Labels[k] = tok THEN LabelsLower[k]
  ELSE ToLowerFrom(tok, k + 1)

ToLower(tok) == ToLowerFrom(tok, 1)

IsSpace(tok) == tok \in {" ", "\n"}

\* pat occurs in text at position p, compared exactly.
MatchAt(text, p, pat) ==
  /\ p >= 1
  /\ p + Len(pat) - 1 <= Len(text)
  /\ \A q \in 1..Len(pat) : text[p + q - 1] = pat[q]

\* pat occurs in text at position p, compared without regard to letter case.
CIMatchAt(text, p, pat) ==
  /\ p >= 1
  /\ p + Len(pat) - 1 <= Len(text)
  /\ \A q \in 1..Len(pat) : ToLower(text[p + q - 1]) = ToLower(pat[q])

\* String.prototype.includes
Includes(text, pat) == \E p \in 1..(Len(text) + 1) : MatchAt(text, p, pat)

\* String.prototype.trim
RECURSIVE TrimLeft(_)
TrimLeft(s) == IF s # <<>> /\ IsSpace(Head(s)) THEN TrimLeft(Tail(s)) ELSE s

RECURSIVE TrimRight(_)
TrimRight(s) ==
  IF s # <<>> /\ IsSpace(s[Len(s)]) THEN TrimRight(SubSeq(s, 1, Len(s) - 1)) ELSE s

Trim(s) == TrimRight(TrimLeft(s))

\* GetSubstitution of String.prototype.replace: the replacement patterns of
\* the replacement string, for a string pattern (no capture groups).
RECURSIVE Substitution(_, _, _, _)
Substitution(rep, matched, before, after) ==
  IF rep = <<>> THEN <<>>
  ELSE LET rest == Substitution(Tail(rep), matched, before, after)
       IN  CASE Head(rep) = "$&" -> matched \o rest
             [] Head(rep) = "$$" -> <<"$">> \o rest
             [] Head(rep) = "$`" -> before \o rest
             [] Head(rep) = "$'" -> after \o rest
             [] OTHER -> <<Head(rep)>> \o rest

\* String.prototype.replace(pat, rep) with a string pattern: the first
\* occurrence only, compared exactly.
\* The first position from p on where pat occurs in s, 0 when there is none.
RECURSIVE IndexOfFrom(_, _, _)
IndexOfFrom(s, pat, p) ==
  IF p + Len(pat) - 1 > Len(s) THEN 0
  ELSE IF MatchAt(s, p, pat) THEN p
  ELSE IndexOfFrom(s, pat, p + 1)

ReplaceAt(s, pat, rep, p) ==
  IF p = 0 THEN s
  ELSE SubSeq(s, 1, p - 1)
         \o Substitution(rep, pat, SubSeq(s, 1, p - 1), SubSeq(s, p + Len(pat), Len(s)))
         \o SubSeq(s, p + Len(pat), Len(s))

StrReplace(s, pat, rep) == ReplaceAt(s, pat, rep, IndexOfFrom(s, pat, 1))

(***************************************************************************)
(* Field extraction: generateFIRAndShare, the sections.map callback.       *)
(***************************************************************************)
\* The alternatives of the group (A|B|C|D|E|F:|$) that are not $: the colon
\* written after sections.join('|') belongs to the last alternative only.
LookaheadAlternatives ==
  [k \in 1..Len(Labels) |->
     IF k = Len(Labels) THEN <<Labels[k], ":">> ELSE <<Labels[k]>>]

\* Mutant: the lookahead is (?=$) alone, so a field runs to the end of the text.
LookaheadAtEndOnly(text, p) == p = Len(text) + 1

\* (?=(...|$)) at position p.
LookaheadAt(text, p) ==
  \/ \E k \in 1..Len(Labels) : CIMatchAt(text, p, LookaheadAlternatives[k])
  \/ p = Len(text) + 1

\* The leftmost position from i on where `${section}:` matches, 0 when
\* there is none.
RECURSIVE SectionStart(_, _, _)
SectionStart(text, section, i) ==
  IF i > Len(text) THEN 0
  ELSE IF CIMatchAt(text, i, <<section, ":">>) THEN i
  ELSE SectionStart(text, section, i + 1)

\* [\s\S]*? is lazy: it stops at the first position from p on where the
\* lookahead succeeds.
RECURSIVE LazyEnd(_, _)
LazyEnd(text, p) == IF LookaheadAt(text, p) THEN p ELSE LazyEnd(text, p + 1)

MatchFrom(text, i) ==
  IF i = 0 THEN [matched |-> FALSE, from |-> 0, to |-> 0]
  ELSE [matched |-> TRUE, from |-> i, to |-> LazyEnd(text, i + 2) - 1]

\* contentText.match(regex): the leftmost match.  matched = FALSE stands for
\* null; from..to are the positions of match[0].
RegexMatch(text, section) == MatchFrom(text, SectionStart(text, section, 1))

\* Mutant: a missing field is left empty instead of the placeholder.
ContentOfEmptyWhenMissing(text, section, match) ==
  IF match.matched
  THEN Trim(StrReplace(SubSeq(text, match.from, match.to), <<section, ":">>, <<>>))
  ELSE <<>>

\* Mutant: the content is not trimmed.
ContentOfUntrimmed(text, section, match) ==
  IF match.matched
  THEN StrReplace(SubSeq(text, match.from, match.to), <<section, ":">>, <<>>)
  ELSE NotProvided

\* match ? match[0].replace(`${section}:`, '').trim() : 'Information not provided'
ContentOf(text, section, match) ==
  IF match.matched
  THEN Trim(StrReplace(SubSeq(text, match.from, match.to), <<section, ":">>, <<>>))
  ELSE NotProvided

SectionOf(text, section, match) ==
  [label |-> section, match |-> match, content |-> ContentOf(text, section, match)]

\* One run of the map callback: the section, its match and its content.
ExtractSection(text, section) == SectionOf(text, section, RegexMatch(text, section))

\* Mutant: a section that has no match is dropped (filter instead of map).
ExtractSectionsMatchedOnly(text) ==
  SelectSeq([k \in 1..Len(Labels) |-> ExtractSection(text, Labels[k])],
            LAMBDA sec : sec.match.matched)

\* The elements sections.map produces, before the markup is wrapped around.
ExtractSections(text) == [k \in 1..Len(Labels) |-> ExtractSection(text, Labels[k])]

\* The template literal returned by the map callback.
SectionBlock(sec) ==
  <<"<div class=section><div class=section-title>", sec.label, "</div><div>">>
    \o sec.content \o <<"</div></div>">>

\* sections.map(...).join('')
StructuredContent(secs) == Concat([k \in 1..Len(secs) |-> SectionBlock(secs[k])])

FIR_TEMPLATE ==
  <<"<html><body><div class=header>", "{{CONTENT}}",
    "<div class=footer>Date: ", "{{DATE}}", "signature lines</body></html>">>

\* new Date().toLocaleDateString('en-IN')
LocaleDate == <<"dd/mm/yyyy">>

\* FIR_TEMPLATE.replace('{{CONTENT}}', structuredContent).replace('{{DATE}}', date)
FormattedHtml(structured) ==
  StrReplace(StrReplace(FIR_TEMPLATE, <<"{{CONTENT}}">>, structured),
             <<"{{DATE}}">>, LocaleDate)

(***************************************************************************)
(* Inputs the environment supplies.                                        *)
(***************************************************************************)
\* Tokens of the free raw texts: a label of the first five in two letter
\* cases, a second label of the first five, the last label, a colon and an
\* ordinary word.
Alphabet ==
  {"Incident Details", "incident details", "Witness Details", "IPC Sections",
   ":", "x"}

FreeTexts == SeqsUpTo(Alphabet, MaxLen)

\* Longer raw texts: whitespace around truncated and mis-cased fields, and
\* labels out of order.
ScenarioTexts ==
  { <<"Incident Details", ":", " ", "x", " ", "Witness Details", ":", " ", "x", "\n">>,
    <<"Incident Details", ":", " ", "x", " ", "Witness Details", " ", "x", "\n",
      "IPC Sections", ":", " ", "x">>,
    <<"Incident Details", ":", " ", "x", " ", "IPC Sections", " ", "x", "\n",
      "IPC Sections", ":", " ", "x">>,
    <<"x", " ", "incident details", ":", " ", "x", "\n", "ipc sections", ":", " ", "x">>,
    <<"IPC Sections", ":", " ", "x", "\n", "Complainant Details", ":", " ", "x", "\n",
      "Incident Details", ":", "x">> }

\* Field contents that hold no label name: text to be trimmed, a replacement
\* pattern, a placeholder of the template.
Contents == {<<" ", "x", "\n">>, <<"$&">>, <<"{{DATE}}", " ">>}

\* A raw text in the format the extraction prompt asks for: "L:" and a
\* content for each label of a subset, in the order of Labels.
BuildText(choice) ==
  Concat([k \in 1..Len(Labels) |->
            IF choice[k] = <<"absent">> THEN <<>>
            ELSE <<Labels[k], ":">> \o choice[k]])

BuiltTexts ==
  {BuildText(c) : c \in [1..Len(Labels) -> Contents \cup {<<"absent">>}]}

RawTexts == FreeTexts \cup BuiltTexts \cup ScenarioTexts

\* Raw texts of the full screen model.
FirReplies == {<<"Incident Details", ":", " ", "x">>}

\* What the user can type.
UserInputs == {<<>>, <<" ">>, <<" ", "a">>}

\* What the model can reply in the chat.
ChatReplies == {<<"ok">>, <<"ok", "NEEDS_SEARCH">>}

Greeting ==
  [role |-> "assistant",
   text |-> <<"Hi - I am here to listen and help. Tell me what happened when you are ready.">>]

FallbackReply ==
  <<"I am having trouble reaching the helper service right now. Please try again shortly.">>

\* The steps of one generateFIRAndShare invocation, as its trace names them
\* when they start; "failed" is written when the awaited call of the last
\* step rejects.
FirSteps == <<"generate", "extract", "assemble", "render", "share">>

(***************************************************************************)
(* The Legal Rights Guide screen (LegalRightsGuide.js).  Its strings are   *)
(* sequences of characters.                                                *)
(***************************************************************************)
\* String.prototype.toLowerCase, one character.
LowerChar(c) == IF c = "A" THEN "a" ELSE IF c = "B" THEN "b" ELSE c

\* String.prototype.toLowerCase
ToLowerCase(str) == [k \in 1..Len(str) |-> LowerChar(str[k])]

\* Entries as ipc.json and pwdva.json hold them: a title and a description.
GuidePool ==
  << [title |-> <<"A", "b">>, description |-> <<"a">>],
     [title |-> <<"b">>, description |-> <<"B", "A">>] >>

GuideEntries == {GuidePool[k] : k \in 1..Len(GuidePool)}

\* The contents of the two imported files.
GuideData ==
  {[ipcData |-> i, pwdvaData |-> p] :
     i \in SeqsUpTo(GuideEntries, 2), p \in SeqsUpTo(GuideEntries, 1)}

\* What the user can type into the search field.
Queries == SeqsUpTo({"A", "a", "b"}, MaxQuery)

\* [...ipcData.map(r => ({...r, source: "IPC"})),
\*  ...pwdvaData.map(r => ({...r, source: "PWDVA"}))]
WithSource(data, source) ==
  [k \in 1..Len(data) |->
     [title |-> data[k].title, description |-> data[k].description,
      source |-> source]]

allData(g) == WithSource(g.ipcData, "IPC") \o WithSource(g.pwdvaData, "PWDVA")

\* The titles, as the keyword boxes and the suggestions offer them.
allKeywords(g) == {allData(g)[k].title : k \in 1..Len(allData(g))}

\* Mutant: the titles alone are searched.
ItemMatchesTitleOnly(item, lowerQuery) ==
  Includes(ToLowerCase(item.title), lowerQuery)

\* The callback of allData.filter.
ItemMatches(item, lowerQuery) ==
  \/ Includes(ToLowerCase(item.title), lowerQuery)
  \/ Includes(ToLowerCase(item.description), lowerQuery)

\* Array.prototype.filter with that callback.
RECURSIVE Filter(_, _)
Filter(items, lowerQuery) ==
  IF items = <<>> THEN <<>>
  ELSE IF ItemMatches(Head(items), lowerQuery)
       THEN <<Head(items)>> \o Filter(Tail(items), lowerQuery)
       ELSE Filter(Tail(items), lowerQuery)

\* The screen as it opens on the data d.
NewGuide(d) ==
  [ipcData |-> d.ipcData, pwdvaData |-> d.pwdvaData, query |-> <<>>,
   results |-> <<>>, showSuggestions |-> FALSE]

(***************************************************************************)
(* State.                                                                  *)
(***************************************************************************)
VARIABLES
  config,     \* genAI, SERPAPI_KEY, Platform.OS: read once at module load
  mounted,    \* the mount effect has run
  messages,   \* useState: the conversation transcript
  inputText,  \* useState
  isLoading,  \* useState
  sends,      \* the handleSend invocations and the locals of each
  firs,       \* the generateFIRAndShare invocations and the locals of each
  guide       \* the Legal Rights Guide screen: its data and its useState values

vars == <<config, mounted, messages, inputText, isLoading, sends, firs, guide>>

\* The locals of one handleSend invocation; botTurns counts the assistant
\* turns the invocation has appended (line 207).
IdleSend ==
  [pc |-> "idle", userText |-> <<>>, aiReply |-> <<>>, firstReply |-> <<>>,
   first |-> "none", second |-> "none", sources |-> "unset", calls |-> <<>>,
   botTurns |-> 0]

IdleFir ==
  [pc |-> "idle", contentText |-> <<>>, sections |-> <<>>, html |-> <<>>,
   steps |-> <<>>, errorAlerts |-> 0, savedAlerts |-> 0]

\* genAI is null without GEMINI_API_KEY; SERPAPI_KEY may be missing;
\* Platform.OS decides whether the file is shared.
Configs ==
  { [genAI |-> TRUE, serpKey |-> TRUE, platformOS |-> "android"],
    [genAI |-> TRUE, serpKey |-> FALSE, platformOS |-> "web"],
    [genAI |-> FALSE, serpKey |-> TRUE, platformOS |-> "ios"] }

Init ==
  /\ config \in Configs
  /\ mounted = FALSE
  /\ messages = <<Greeting>>
  /\ inputText = <<>>
  /\ isLoading = FALSE
  /\ sends = [i \in 1..MaxSends |-> IdleSend]
  /\ firs = [j \in 1..MaxFirs |-> IdleFir]
  /\ guide = NewGuide([ipcData |-> <<GuidePool[1]>>, pwdvaData |-> <<GuidePool[2]>>])

(***************************************************************************)
(* Screen entry, typing, Reset.                                            *)
(***************************************************************************)
\* useEffect(() => { setMessages([greeting]) }, [])
UseEffectMount ==
  /\ ~mounted
  /\ mounted' = TRUE
  /\ messages' = <<Greeting>>
  /\ UNCHANGED <<guide, config, inputText, isLoading, sends, firs>>

\* <TextInput onChangeText={setInputText} editable={!isLoading} />
ChangeText(t) ==
  /\ mounted
  /\ ~isLoading
  /\ t # inputText
  /\ inputText' = t
  /\ UNCHANGED <<guide, config, mounted, messages, isLoading, sends, firs>>

\* Reset onPress
ResetPress ==
  /\ mounted
  /\ messages' = <<Greeting>>
  /\ UNCHANGED <<guide, config, mounted, inputText, isLoading, sends, firs>>

(***************************************************************************)
(* handleSend.                                                             *)
(***************************************************************************)
\* Mutant: the update drops the previous turns.
AppendTurnDropsPrev(prev, msg) == <<msg>>

\* setMessages(prev => [...prev, msg])
AppendTurn(prev, msg) == Append(prev, msg)

\* Mutant: every reply that is not empty triggers the search.
NeedsSearchAnyReply(aiReply) == aiReply # <<>>

\* aiReply && aiReply.includes('NEEDS_SEARCH')
NeedsSearch(aiReply) == aiReply # <<>> /\ Includes(aiReply, <<"NEEDS_SEARCH">>)

\* Lines 206-208: the assistant turn is appended and its insert awaited.
AppendBot(i, s) ==
  /\ messages' = AppendTurn(messages, [role |-> "assistant", text |-> s.aiReply])
  /\ sends' = [sends EXCEPT ![i] = [s EXCEPT !.pc = "saveBot", !.botTurns = @ + 1]]

\* Lines 192-200 once aiReply is set: the search, then the second model call.
\* Without SERPAPI_KEY querySerpApiForIPC returns null before any request.
AfterFirstReply(i, s) ==
  IF NeedsSearch(s.aiReply)
  THEN IF config.serpKey
       THEN /\ sends' = [sends EXCEPT ![i] =
                  [s EXCEPT !.pc = "serp",
                            !.calls = @ \o <<"querySerpApiForIPC", "fetch">>]]
            /\ UNCHANGED messages
       ELSE /\ sends' = [sends EXCEPT ![i] =
                  [s EXCEPT !.pc = "gemini2", !.sources = "null",
                            !.calls = @ \o <<"querySerpApiForIPC", "callGemini">>]]
            /\ UNCHANGED messages
  ELSE AppendBot(i, s)

\* Lines 171-177, up to the await of the user turn's insert.  The Send
\* button is disabled while the input is blank or isLoading is true.
HandleSend(i) ==
  /\ mounted
  /\ sends[i].pc = "idle"
  /\ \A k \in 1..(i - 1) : sends[k].pc # "idle"
  /\ ~isLoading
  /\ Trim(inputText) # <<>>
  /\ messages' = AppendTurn(messages, [role |-> "user", text |-> Trim(inputText)])
  /\ inputText' = <<>>
  /\ sends' = [sends EXCEPT ![i] =
        [@ EXCEPT !.pc = "saveUser", !.userText = Trim(inputText)]]
  /\ UNCHANGED <<guide, config, mounted, isLoading, firs>>

\* Lines 177-185: saveInteraction settles (a failed insert is caught and
\* logged), setIsLoading(true), the first callGemini.  callGemini throws at
\* once when genAI is null.
SaveUserSettled(i) ==
  /\ sends[i].pc = "saveUser"
  /\ isLoading' = TRUE
  /\ IF config.genAI
     THEN /\ sends' = [sends EXCEPT ![i] =
                [@ EXCEPT !.pc = "gemini1", !.calls = @ \o <<"callGemini">>]]
          /\ UNCHANGED messages
     ELSE AfterFirstReply(i,
            [sends[i] EXCEPT !.aiReply = FallbackReply, !.firstReply = FallbackReply,
                             !.first = "failed", !.calls = @ \o <<"callGemini">>])
  /\ UNCHANGED <<guide, config, mounted, inputText, firs>>

\* Line 185 resolves.
Gemini1Return(i, reply) ==
  /\ sends[i].pc = "gemini1"
  /\ AfterFirstReply(i,
       [sends[i] EXCEPT !.aiReply = reply, !.firstReply = reply, !.first = "ok"])
  /\ UNCHANGED <<guide, config, mounted, inputText, isLoading, firs>>

\* Lines 186-189.
Gemini1Fail(i) ==
  /\ sends[i].pc = "gemini1"
  /\ AfterFirstReply(i,
       [sends[i] EXCEPT !.aiReply = FallbackReply, !.firstReply = FallbackReply,
                        !.first = "failed"])
  /\ UNCHANGED <<guide, config, mounted, inputText, isLoading, firs>>

\* querySerpApiForIPC settles with results (a list, possibly empty) or, when
\* the request or its parsing throws, with null; then lines 195-200.
SerpSettled(i, results) ==
  /\ sends[i].pc = "serp"
  /\ sends' = [sends EXCEPT ![i] =
        [@ EXCEPT !.pc = "gemini2", !.sources = results,
                  !.calls = @ \o <<"callGemini">>]]
  /\ UNCHANGED <<guide, config, mounted, messages, inputText, isLoading, firs>>

\* Line 200 resolves.
Gemini2Return(i, reply) ==
  /\ sends[i].pc = "gemini2"
  /\ AppendBot(i, [sends[i] EXCEPT !.aiReply = reply, !.second = "ok"])
  /\ UNCHANGED <<guide, config, mounted, inputText, isLoading, firs>>

\* Lines 201-203: aiReply keeps the first reply.
Gemini2Fail(i) ==
  /\ sends[i].pc = "gemini2"
  /\ AppendBot(i, [sends[i] EXCEPT !.second = "failed"])
  /\ UNCHANGED <<guide, config, mounted, inputText, isLoading, firs>>

\* Mutant: no finally, isLoading stays as it is.
SaveBotSettledKeepsLoading(i) ==
  /\ sends[i].pc = "saveBot"
  /\ sends' = [sends EXCEPT ![i] =
        [IdleSend EXCEPT !.pc = "done", !.botTurns = sends[i].botTurns]]
  /\ UNCHANGED <<guide, config, mounted, messages, inputText, isLoading, firs>>

\* Lines 208-211: the assistant turn's insert settles, then finally; the
\* locals of the invocation are gone.
SaveBotSettled(i) ==
  /\ sends[i].pc = "saveBot"
  /\ sends' = [sends EXCEPT ![i] =
        [IdleSend EXCEPT !.pc = "done", !.botTurns = sends[i].botTurns]]
  /\ isLoading' = FALSE
  /\ UNCHANGED <<guide, config, mounted, messages, inputText, firs>>

(***************************************************************************)
(* generateFIRAndShare.                                                    *)
(***************************************************************************)
\* catch (err) { Alert.alert('Error', 'Could not generate FIR.') }
\* finally { setIsLoading(false) }
FirCatch(j, f) ==
  /\ firs' = [firs EXCEPT ![j] =
        [f EXCEPT !.pc = "done", !.steps = Append(@, "failed"),
                  !.errorAlerts = @ + 1, !.contentText = <<>>,
                  !.sections = <<>>, !.html = <<>>]]
  /\ isLoading' = FALSE

\* Lines 214-235: the prompt is built from the transcript, setIsLoading(true),
\* callGemini(extractPrompt).  The Generate button is never disabled.
GenerateFIRPress(j) ==
  /\ mounted
  /\ firs[j].pc = "idle"
  /\ \A k \in 1..(j - 1) : firs[k].pc # "idle"
  /\ IF config.genAI
     THEN /\ firs' = [firs EXCEPT ![j] =
                [@ EXCEPT !.pc = "gen", !.steps = <<"generate">>]]
          /\ isLoading' = TRUE
     ELSE FirCatch(j, [firs[j] EXCEPT !.steps = <<"generate">>])
  /\ UNCHANGED <<guide, config, mounted, messages, inputText, sends>>

\* Lines 247-268: the locals once the fields are extracted and the document is
\* assembled.
FirAssembled(f, text, secs) ==
  [f EXCEPT !.pc = "print", !.contentText = text, !.sections = secs,
            !.html = FormattedHtml(StructuredContent(secs)),
            !.steps = @ \o <<"extract", "assemble", "render">>]

\* Lines 235-268: the generation resolves with contentText; the fields are
\* extracted, the document assembled and Print.printToFileAsync called.
FirGeminiReturn(j, text) ==
  /\ firs[j].pc = "gen"
  /\ firs' = [firs EXCEPT ![j] = FirAssembled(@, text, ExtractSections(text))]
  /\ UNCHANGED <<guide, config, mounted, messages, inputText, isLoading, sends>>

\* callGemini rejects.
FirGeminiFail(j) ==
  /\ firs[j].pc = "gen"
  /\ FirCatch(j, firs[j])
  /\ UNCHANGED <<guide, config, mounted, messages, inputText, sends>>

\* Lines 265-274: the file is written; on android and ios it is shared,
\* elsewhere an alert names it and the invocation ends.
PrintReturn(j) ==
  /\ firs[j].pc = "print"
  /\ IF config.platformOS \in {"android", "ios"}
     THEN /\ firs' = [firs EXCEPT ![j] =
                [@ EXCEPT !.pc = "share", !.steps = @ \o <<"share">>]]
          /\ UNCHANGED isLoading
     ELSE /\ firs' = [firs EXCEPT ![j] =
                [@ EXCEPT !.pc = "done", !.savedAlerts = @ + 1, !.contentText = <<>>,
                          !.sections = <<>>, !.html = <<>>]]
          /\ isLoading' = FALSE
  /\ UNCHANGED <<guide, config, mounted, messages, inputText, sends>>

\* Mutant: the rejection is swallowed and the file is shared all the same.
PrintFailStillShares(j) ==
  /\ firs[j].pc = "print"
  /\ firs' = [firs EXCEPT ![j] =
        [@ EXCEPT !.pc = "share", !.steps = @ \o <<"failed", "share">>]]
  /\ UNCHANGED <<guide, config, mounted, messages, inputText, isLoading, sends>>

\* Print.printToFileAsync rejects.
PrintFail(j) ==
  /\ firs[j].pc = "print"
  /\ FirCatch(j, firs[j])
  /\ UNCHANGED <<guide, config, mounted, messages, inputText, sends>>

\* Sharing.shareAsync resolves; finally.
ShareReturn(j) ==
  /\ firs[j].pc = "share"
  /\ firs' = [firs EXCEPT ![j] =
        [@ EXCEPT !.pc = "done", !.contentText = <<>>, !.sections = <<>>,
                  !.html = <<>>]]
  /\ isLoading' = FALSE
  /\ UNCHANGED <<guide, config, mounted, messages, inputText, sends>>

\* Sharing.shareAsync rejects.
ShareFail(j) ==
  /\ firs[j].pc = "share"
  /\ FirCatch(j, firs[j])
  /\ UNCHANGED <<guide, config, mounted, messages, inputText, sends>>

(***************************************************************************)
(* The Legal Rights Guide screen.                                          *)
(***************************************************************************)
\* onChangeText={(text) => { setQuery(text); setShowSuggestions(true); }}
GuideChangeText(text) ==
  /\ text # guide.query
  /\ guide' = [guide EXCEPT !.query = text, !.showSuggestions = TRUE]
  /\ UNCHANGED <<config, mounted, messages, inputText, isLoading, sends, firs>>

\* handleKeywordPress, from a keyword box or a suggestion.
HandleKeywordPress(keyword) ==
  /\ keyword \in allKeywords(guide)
  /\ guide' = [guide EXCEPT !.query = keyword, !.showSuggestions = FALSE]
  /\ UNCHANGED <<config, mounted, messages, inputText, isLoading, sends, firs>>

\* handleSearch
HandleSearch ==
  /\ guide' = [guide EXCEPT
        !.results = Filter(allData(guide), ToLowerCase(guide.query)),
        !.showSuggestions = FALSE]
  /\ UNCHANGED <<config, mounted, messages, inputText, isLoading, sends, firs>>

(***************************************************************************)
(* Specifications.                                                         *)
(***************************************************************************)
SendStep(i) ==
  \/ HandleSend(i)
  \/ SaveUserSettled(i)
  \/ \E reply \in ChatReplies : Gemini1Return(i, reply)
  \/ Gemini1Fail(i)
  \/ \E results \in {"null", "items"} : SerpSettled(i, results)
  \/ \E reply \in ChatReplies : Gemini2Return(i, reply)
  \/ Gemini2Fail(i)
  \/ SaveBotSettled(i)

FirStep(j, texts) ==
  \/ GenerateFIRPress(j)
  \/ firs[j].pc = "gen" /\ \E text \in texts : FirGeminiReturn(j, text)
  \/ FirGeminiFail(j)
  \/ PrintReturn(j)
  \/ PrintFail(j)
  \/ ShareReturn(j)
  \/ ShareFail(j)

\* The whole screen.
Next ==
  \/ UseEffectMount
  \/ \E t \in UserInputs : ChangeText(t)
  \/ ResetPress
  \/ \E i \in 1..MaxSends : SendStep(i)
  \/ \E j \in 1..MaxFirs : FirStep(j, FirReplies)

Spec == Init /\ [][Next]_vars

\* One awaited call of send i settles: it returns or it fails.
SendSettles(i) ==
  \/ SaveUserSettled(i)
  \/ \E reply \in ChatReplies : Gemini1Return(i, reply)
  \/ Gemini1Fail(i)
  \/ \E results \in {"null", "items"} : SerpSettled(i, results)
  \/ \E reply \in ChatReplies : Gemini2Return(i, reply)
  \/ Gemini2Fail(i)
  \/ SaveBotSettled(i)

\* The screen with the sends and one FIR generation beside them.
NextChat ==
  \/ UseEffectMount
  \/ \E t \in UserInputs : ChangeText(t)
  \/ ResetPress
  \/ \E i \in 1..MaxSends : SendStep(i)
  \/ FirStep(1, FirReplies)

\* Every awaited call of a send settles in the end.
FairSpec ==
  Init /\ [][NextChat]_vars /\ \A i \in 1..MaxSends : WF_vars(SendSettles(i))

\* The screen with room for one send more, so that a send can be pressed
\* while another is under way.
InitOverlap ==
  /\ config \in Configs
  /\ mounted = FALSE
  /\ messages = <<Greeting>>
  /\ inputText = <<>>
  /\ isLoading = FALSE
  /\ sends = [i \in 1..(MaxSends + 1) |-> IdleSend]
  /\ firs = [j \in 1..MaxFirs |-> IdleFir]
  /\ guide = NewGuide([ipcData |-> <<GuidePool[1]>>, pwdvaData |-> <<GuidePool[2]>>])

NextOverlap ==
  \/ UseEffectMount
  \/ \E t \in UserInputs : ChangeText(t)
  \/ ResetPress
  \/ \E i \in 1..(MaxSends + 1) : SendStep(i)
  \/ FirStep(1, FirReplies)

SpecOverlap == InitOverlap /\ [][NextOverlap]_vars

\* One generateFIRAndShare invocation on a configured device, its raw text
\* drawn from RawTexts.
InitExtract ==
  /\ Init
  /\ config.genAI
  /\ config.platformOS = "android"

NextExtract ==
  \/ UseEffectMount
  \/ FirStep(1, RawTexts)

SpecExtract == InitExtract /\ [][NextExtract]_vars

\* The Legal Rights Guide screen on any of the data sets.
InitGuide ==
  /\ config \in Configs
  /\ config.genAI /\ config.serpKey
  /\ mounted = FALSE
  /\ messages = <<Greeting>>
  /\ inputText = <<>>
  /\ isLoading = FALSE
  /\ sends = [i \in 1..MaxSends |-> IdleSend]
  /\ firs = [j \in 1..MaxFirs |-> IdleFir]
  /\ guide \in {NewGuide(d) : d \in GuideData}

NextGuide ==
  \/ \E text \in Queries : GuideChangeText(text)
  \/ \E keyword \in allKeywords(guide) : HandleKeywordPress(keyword)
  \/ HandleSearch

SpecGuide == InitGuide /\ [][NextGuide]_vars

(***************************************************************************)
(* Properties of the field extraction and the document assembly, checked   *)
(* under SpecExtract.  They are stated over the tokens of the raw text,    *)
(* without the operators that model the code.                              *)
(***************************************************************************)
\* The invocations whose fields are extracted and whose document is assembled.
Extracted == {j \in 1..MaxFirs : firs[j].pc \in {"print", "share"}}

\* The name of label k in either letter case.
AnyCase(k) == {Labels[k], LabelsLower[k]}

LabelTokens == UNION {AnyCase(k) : k \in 1..Len(Labels)}

\* Where the token "L:" of label k occurs, in either letter case.
TokenPositions(text, k) ==
  {p \in 1..(Len(text) - 1) : text[p] \in AnyCase(k) /\ text[p + 1] = ":"}

\* Where a label name followed by a colon occurs.
AnchorPositions(text) == UNION {TokenPositions(text, k) : k \in 1..Len(Labels)}

Least(S) == CHOOSE x \in S : \A y \in S : x <= y

\* c is r without its leading and trailing whitespace.
IsTrimOf(c, r) ==
  /\ c = <<>> \/ (~IsSpace(c[1]) /\ ~IsSpace(c[Len(c)]))
  /\ \E a \in 0..(Len(r) - Len(c)) :
       /\ SubSeq(r, a + 1, a + Len(c)) = c
       /\ \A q \in 1..a : IsSpace(r[q])
       /\ \A q \in (a + Len(c) + 1)..Len(r) : IsSpace(r[q])

\* c occurs in r as a contiguous piece.
IsInfix(c, r) == \E a \in 0..(Len(r) - Len(c)) : SubSeq(r, a + 1, a + Len(c)) = c

\* C1: whatever the raw text, the extraction yields exactly six sections, one
\* per label, in the order of the label list; none is omitted and the order
\* does not follow the order of the labels in the text.
C1_SixSectionsInFixedOrder ==
  \A j \in Extracted :
    /\ Len(firs[j].sections) = 6
    /\ \A k \in 1..6 : firs[j].sections[k].label = Labels[k]

\* A text that names the last label before the second one, and names four
\* labels not at all.
C1_Witness ==
  \E j \in Extracted :
    /\ firs[j].contentText = <<"IPC Sections", ":", "Incident Details", ":", "x">>
    /\ firs[j].sections[2].content = <<"x">>
    /\ firs[j].sections[1].content = NotProvided

\* The raw text has the format "L: content" for a subset of the labels in the
\* order of the label list, and no content holds a label name.
BuiltForm(text) ==
  LET at == {p \in 1..Len(text) : text[p] \in LabelTokens}
      index(tok) == CHOOSE k \in 1..Len(Labels) : tok \in AnyCase(k)
  IN  /\ text = <<>> \/ 1 \in at
      /\ \A p \in at : text[p] = Labels[index(text[p])] /\ p \in AnchorPositions(text)
      /\ \A p, q \in at : p < q => index(text[p]) < index(text[q])

\* The text written for label k in a text of that format: from behind its
\* colon to the next label or to the end.
WrittenFor(text, k) ==
  LET p == Least(TokenPositions(text, k))
      next == {q \in AnchorPositions(text) : q > p} \cup {Len(text) + 1}
  IN  SubSeq(text, p + 2, Least(next) - 1)

\* C2: for a raw text in the format "L: content" (a subset of the labels, in
\* order, no label name inside a content), each label that is present gets
\* exactly its content, trimmed, and each absent label the placeholder.
C2_BuiltTextRoundTrip ==
  \A j \in Extracted :
    BuiltForm(firs[j].contentText) =>
      \A k \in 1..Len(Labels) :
        IF TokenPositions(firs[j].contentText, k) = {}
        THEN firs[j].sections[k].content = NotProvided
        ELSE IsTrimOf(firs[j].sections[k].content, WrittenFor(firs[j].contentText, k))

\* The first two labels are present with whitespace around their contents,
\* the other four are absent.
C2_Witness ==
  \E j \in Extracted :
    /\ firs[j].contentText =
         <<"Complainant Details", ":", " ", "x", "\n",
           "Incident Details", ":", " ", "x", "\n">>
    /\ firs[j].sections[1].content = <<"x">>
    /\ firs[j].sections[2].content = <<"x">>
    /\ \A k \in 3..6 : firs[j].sections[k].content = NotProvided

\* C3: for each label that occurs, the captured span runs from the first
\* "L:" up to the next label name followed by a colon, or to the end of the
\* text; a label name without a colon does not end it.
C3_SpanEndsAtNextLabelColon ==
  \A j \in Extracted : \A k \in 1..Len(Labels) :
    LET text == firs[j].contentText
        starts == TokenPositions(text, k)
    IN  starts # {} =>
          LET i == Least(starts)
              ends == {q \in AnchorPositions(text) : q >= i + 2} \cup {Len(text) + 1}
          IN  firs[j].sections[k].match =
                [matched |-> TRUE, from |-> i, to |-> Least(ends) - 1]

\* C4: a matched section's content is the matched span without its leading
\* "L:" and trimmed, in whatever letter case the label is written.
C4_PrefixStrippedAnyCase ==
  \A j \in Extracted : \A k \in 1..Len(Labels) :
    LET sec == firs[j].sections[k]
    IN  sec.match.matched =>
          IsTrimOf(sec.content,
                   SubSeq(firs[j].contentText, sec.match.from + 2, sec.match.to))

\* C5: every raw text is extracted; a label whose token "L:" does not occur
\* gets the placeholder, so an empty text or one without any label token
\* gets six placeholders.
C5_MissingLabelGetsPlaceholder ==
  \A j \in Extracted :
    /\ DOMAIN firs[j].sections = 1..Len(Labels)
    /\ \A k \in 1..Len(Labels) :
         TokenPositions(firs[j].contentText, k) = {}
           => firs[j].sections[k].content = NotProvided

\* A text that is not empty and names labels, none of them with its colon.
C5_Witness ==
  \E j \in Extracted :
    /\ firs[j].contentText = <<"Incident Details", "x", ":", "IPC Sections">>
    /\ \A k \in 1..Len(Labels) : firs[j].sections[k].content = NotProvided

\* C6: when the text after a label L holds the literal name of another label
\* followed by a colon, the content of L holds nothing from there on.
C6_TruncatedAtInnerLabel ==
  \A j \in Extracted : \A k \in 1..Len(Labels) :
    LET text == firs[j].contentText
        sec == firs[j].sections[k]
    IN  sec.match.matched =>
          \A m \in 1..Len(Labels) : \A p \in (sec.match.from + 2)..(Len(text) - 1) :
            (m # k /\ text[p] = Labels[m] /\ text[p + 1] = ":")
              => /\ sec.match.to < p
                 /\ IsInfix(sec.content, SubSeq(text, sec.match.from, p - 1))

\* "Witness Details:" inside the text of Incident Details.
C6_Witness ==
  \E j \in Extracted :
    /\ firs[j].contentText = <<"Incident Details", ":", "x", "Witness Details", ":">>
    /\ firs[j].sections[2].content = <<"x">>

\* The section blocks as the map callback writes them, from the sections.
BlocksOf(secs) ==
  Concat([k \in 1..Len(secs) |->
            <<"<div class=section><div class=section-title>", secs[k].label,
              "</div><div>">> \o secs[k].content \o <<"</div></div>">>])

\* C7: the assembled document is the template with the section blocks,
\* verbatim, in place of {{CONTENT}} and the date in place of the footer's
\* {{DATE}}, whatever the contents hold.
C7_PlaceholdersReplaced ==
  \A j \in Extracted :
    firs[j].html =
      <<FIR_TEMPLATE[1]>> \o BlocksOf(firs[j].sections) \o <<FIR_TEMPLATE[3]>>
        \o LocaleDate \o <<FIR_TEMPLATE[5]>>

(***************************************************************************)
(* Properties of the screen, checked under Spec.                           *)
(***************************************************************************)
IsPrefix(a, b) == Len(a) <= Len(b) /\ SubSeq(b, 1, Len(a)) = a

\* How often call x is in a call log.
Count(calls, x) == Cardinality({p \in 1..Len(calls) : calls[p] = x})

\* The steps of a trace that started, without the mark of a rejection.
Started(steps) ==
  IF steps # <<>> /\ steps[Len(steps)] = "failed"
  THEN SubSeq(steps, 1, Len(steps) - 1)
  ELSE steps

\* C8: within one generateFIRAndShare invocation the steps start in the order
\* generate, extract, assemble, render, share, each only after the one before
\* has succeeded; when the generation, the rendering or the sharing fails, no
\* later step starts, exactly one failure alert is shown, and no step runs
\* twice.
C8_StepsInOrderOneAlert ==
  \A j \in 1..MaxFirs :
    LET f == firs[j]
        rejected == \E p \in 1..Len(f.steps) : f.steps[p] = "failed"
    IN  /\ IsPrefix(Started(f.steps), FirSteps)
        /\ f.pc = "idle" => f.steps = <<>>
        /\ f.pc = "gen" => f.steps = SubSeq(FirSteps, 1, 1)
        /\ f.pc = "print" => f.steps = SubSeq(FirSteps, 1, 4)
        /\ f.pc = "share" => f.steps = FirSteps
        /\ rejected =>
             /\ f.pc = "done"
             /\ f.errorAlerts = 1
             /\ f.savedAlerts = 0
             /\ Started(f.steps)[Len(Started(f.steps))] \in {"generate", "render", "share"}
        /\ ~rejected => f.errorAlerts = 0
        /\ (f.pc = "done" /\ ~rejected) =>
             \/ f.steps = FirSteps /\ f.savedAlerts = 0
             \/ f.steps = SubSeq(FirSteps, 1, 4) /\ f.savedAlerts = 1

\* The rendering failed: the file was never shared and one alert was shown.
C8_Witness ==
  \E j \in 1..MaxFirs :
    /\ firs[j].pc = "done"
    /\ firs[j].steps = <<"generate", "extract", "assemble", "render", "failed">>
    /\ firs[j].errorAlerts = 1

\* C9: the transcript is append-only between resets: a step of a send or of
\* a FIR generation leaves the turns that exist as they are and at most adds
\* turns at the end (a FIR generation adds none); screen entry and Reset set
\* the transcript to the greeting alone.
C9_TranscriptAppendOnly ==
  [][ /\ (UseEffectMount \/ ResetPress) => messages' = <<Greeting>>
      /\ ~(UseEffectMount \/ ResetPress) => IsPrefix(messages, messages')
      /\ firs' # firs => messages' = messages ]_vars

\* A send appended its user turn, Reset was pressed, and the reply of the
\* send was appended behind the greeting.
C9_Witness ==
  /\ Len(messages) = 2
  /\ messages[1] = Greeting
  /\ messages[2].role = "assistant"

\* C10: one handleSend searches if and only if the first reply holds
\* NEEDS_SEARCH, and then calls the model exactly once more; it calls the
\* model at most twice and searches at most once; the fallback reply of a
\* failed first call triggers no search; when the second call fails the
\* first reply is the assistant turn.
C10_SearchOnlyOnNeedsSearch ==
  \A i \in 1..MaxSends :
    LET s == sends[i]
        modelCalls == Count(s.calls, "callGemini")
        searchCalls == Count(s.calls, "querySerpApiForIPC")
        marked == \E p \in 1..Len(s.firstReply) : s.firstReply[p] = "NEEDS_SEARCH"
    IN  /\ modelCalls <= 2
        /\ searchCalls <= 1
        /\ Count(s.calls, "fetch") <= searchCalls
        /\ s.pc \in {"serp", "gemini2", "saveBot"} => (searchCalls = 1 <=> marked)
        /\ s.first = "failed" => searchCalls = 0 /\ s.aiReply = FallbackReply
        /\ s.pc = "serp" => modelCalls = 1
        /\ (s.pc \in {"gemini2", "saveBot"} /\ searchCalls = 1) =>
             /\ modelCalls = 2
             /\ s.calls[1] = "callGemini"
             /\ s.calls[2] = "querySerpApiForIPC"
             /\ s.calls[Len(s.calls)] = "callGemini"
        /\ (s.pc = "saveBot" /\ searchCalls = 0) => modelCalls = 1
        /\ (s.pc = "saveBot" /\ s.second = "failed") => s.aiReply = s.firstReply

\* The first reply asked for a search, the search was made, the second model
\* call failed, and the first reply is the assistant turn.
C10_Witness ==
  \E i \in 1..MaxSends :
    /\ sends[i].pc = "saveBot"
    /\ sends[i].second = "failed"
    /\ sends[i].calls = <<"callGemini", "querySerpApiForIPC", "fetch", "callGemini">>
    /\ messages[Len(messages)] = [role |-> "assistant", text |-> <<"ok", "NEEDS_SEARCH">>]

\* Send i appends its assistant turn in this step.
AppendsBotTurn(i) == sends[i].pc # "saveBot" /\ sends'[i].pc = "saveBot"

\* Every send that has appended its user turn ends, with one assistant turn
\* appended and isLoading false.
SendsEnd ==
  \A i \in 1..MaxSends :
    (sends[i].pc = "saveUser") ~>
      (sends[i].pc = "done" /\ sends[i].botTurns = 1 /\ ~isLoading)

\* A send appends its assistant turn behind the transcript, once, after its
\* user turn, and the step that ends it sets isLoading to false.
OneBotTurnPerSend ==
  \A i \in 1..MaxSends :
    /\ AppendsBotTurn(i) =>
         /\ sends[i].pc \in {"saveUser", "gemini1", "gemini2"}
         /\ sends[i].botTurns = 0
         /\ messages' =
              Append(messages, [role |-> "assistant", text |-> sends'[i].aiReply])
    /\ (sends[i].pc # "done" /\ sends'[i].pc = "done") =>
         sends[i].pc = "saveBot" /\ ~isLoading'

\* C11 as stated: every send with an input that is not blank ends with
\* exactly one assistant turn appended after its user turn and with isLoading
\* false, whatever fails; the assistant turn of a send with a failed model
\* call, the first or the second, is the fallback text.
C11_FailedModelCallGivesFallback ==
  /\ SendsEnd
  /\ [][ /\ OneBotTurnPerSend
         /\ \A i \in 1..MaxSends :
              (AppendsBotTurn(i) /\ "failed" \in {sends'[i].first, sends'[i].second})
                => sends'[i].aiReply = FallbackReply ]_vars

\* C11 amended: as above, but the fallback text is the assistant turn when
\* the first model call fails; when the second model call fails the reply of
\* the first call is the assistant turn.
C11_SendEndsWithOneAssistantTurn ==
  /\ SendsEnd
  /\ [][ /\ OneBotTurnPerSend
         /\ \A i \in 1..MaxSends :
              AppendsBotTurn(i) =>
                /\ sends'[i].first = "failed" => sends'[i].aiReply = FallbackReply
                /\ sends'[i].second = "failed" =>
                     sends'[i].aiReply = sends'[i].firstReply ]_vars

\* A send whose model call failed has ended: the fallback text is the last
\* turn, the send appended one assistant turn, isLoading is false.
C11_Witness ==
  \E i \in 1..MaxSends :
    /\ sends[i].pc = "done"
    /\ sends[i].botTurns = 1
    /\ ~isLoading
    /\ messages[Len(messages)].role = "assistant"
    /\ messages[Len(messages)].text = FallbackReply

\* The sends that have appended their user turn and not yet their assistant
\* turn.
AwaitingReply ==
  {i \in DOMAIN sends : sends[i].pc \in {"saveUser", "gemini1", "serp", "gemini2"}}

\* C13: at most one send is between its user turn and its assistant turn at
\* any time, and no send starts while isLoading is true or another send is
\* under way, so that user and assistant turns alternate behind the
\* greeting.
C13_OneSendAtATime ==
  /\ Cardinality(AwaitingReply) <= 1
  /\ \A p \in 2..Len(messages) : messages[p].role # messages[p - 1].role

\* C14: a Reset pressed while a send waits for its reply discards that
\* conversation: no assistant turn that answers a user message sent before
\* the reset is appended afterwards, so every assistant turn behind the
\* greeting stands right behind a user turn, the one it answers.
C14_ResetDiscardsPendingReply ==
  \A p \in 2..Len(messages) :
    messages[p].role = "assistant" => messages[p - 1].role = "user"

(***************************************************************************)
(* Properties of the Legal Rights Guide screen, checked under SpecGuide.   *)
(***************************************************************************)
\* The same letter, in whatever case.
SameLetter(c, d) ==
  c = d \/ {c, d} = {"A", "a"} \/ {c, d} = {"B", "b"}

\* q is a contiguous piece of text, letter case aside.
ContainsCI(text, q) ==
  \E a \in 0..(Len(text) - Len(q)) :
    \A k \in 1..Len(q) : SameLetter(text[a + k], q[k])

\* The entries of the combined data, IPC first, that hold q in their title or
\* their description.
Matching(g, q) ==
  LET tagged(data, source) ==
        [k \in 1..Len(data) |-> [title |-> data[k].title,
                                 description |-> data[k].description,
                                 source |-> source]]
  IN  SelectSeq(tagged(g.ipcData, "IPC") \o tagged(g.pwdvaData, "PWDVA"),
                LAMBDA e : ContainsCI(e.title, q) \/ ContainsCI(e.description, q))

\* C12: handleSearch sets results to the entries of the combined data (IPC
\* entries, then PWDVA entries, in data order) whose title or description
\* contains the query, letter case aside; the empty query gives all the
\* data; typing and choosing a keyword change the query and leave results as
\* they are.
C12_SearchFiltersDataset ==
  [][ /\ HandleSearch =>
           /\ guide'.results = Matching(guide, guide.query)
           /\ guide.query = <<>> =>
                Len(guide'.results) = Len(guide.ipcData) + Len(guide.pwdvaData)
           /\ guide'.query = guide.query
      /\ ~HandleSearch => guide'.results = guide.results ]_vars

\* A search (for "Ab", "ab" or "a", "b" in either order and case) found the
\* PWDVA entry titled "Ab" and not the two IPC entries; a query that all
\* three entries hold was typed afterwards and results stayed.
C12_Witness ==
  /\ guide.ipcData = <<GuidePool[2], GuidePool[2]>>
  /\ guide.pwdvaData = <<GuidePool[1]>>
  /\ guide.query = <<"b">>
  /\ guide.showSuggestions
  /\ guide.results =
       <<[title |-> <<"A", "b">>, description |-> <<"a">>, source |-> "PWDVA"]>>

=============================================================================
